---------------------------- MODULE Spec2Model ----------------------------
(***************************************************************************)
(* Model of presence_analyzer/cache.py: the MemoryCache back-end used by   *)
(* several threads of one process.                                         *)
(*                                                                         *)
(* Every thread repeatedly calls one of get, set_expire, get_or_set and    *)
(* clean on the one shared MemoryCache.  A call is executed in the steps   *)
(* the interpreter can interleave; the local variables of the methods      *)
(* (now, function_hash, in_cache_valid, result, cached) are per thread.    *)
(* datetime.now() is the integer variable clock.                           *)
(*                                                                         *)
(* Spec is the MemoryCache under concurrent calls; SpecBase the base class *)
(* Cache; SpecNested adds producers that call the cache themselves;        *)
(* SpecApi is get_user_presence_data and the 404 handler over the cache;   *)
(* SpecWeekday is group_by_weekday.                                        *)
(***************************************************************************)
EXTENDS Integers, Sequences, FiniteSets, TLC

(***************************************************************************)
(* Bounds of the model.                                                    *)
(***************************************************************************)
MaxTime == 1        \* the clock runs from 0 to MaxTime
MaxItems == 2       \* the dates of a user's presence given to group_by_weekday
NumDays == 8        \* the consecutive days those dates are taken from

Threads == {"t1", "t2"}

(***************************************************************************)
(* Python values.  None is the value a function returns when it falls off  *)
(* its end (MemoryCache.get on a miss).  The results a producer returns are *)
(* strings; the empty string is a value Python's `not` takes for false.    *)
(***************************************************************************)
None == "<None>"

Results == {"", "ab"}

\* What get_presence_data returns (utils.py, lines 112-153): a dict from user
\* ids to the user's days, written here as its literal; DictOf gives the dict.
\* The file that it reads may hold no valid row (tests.py, lines 264-278).
PresenceData == {"{}", "{10: days}"}

DictOf(data) == IF data = "{10: days}" THEN (10 :> "days") ELSE << >>

\* function.__name__ of the function objects of the model.  "f" and "f2" are
\* two distinct function objects of one name (tests.py defines tested_func
\* anew in every setUp); "g" is a function of another name.
FuncName(function) ==
    IF function \in {"f", "f2"} THEN "tested_func" ELSE "get_presence_data"

\* Keyword arguments are a dict: a function from some names to values.
EmptyKw == [k \in {} |-> ""]

KwNames == <<"first", "second">>

\* A call (function, *args, **kwargs).
Call(fn, a, kw) == [function |-> fn, args |-> a, kwargs |-> kw]

\* The workloads: the calls that the threads of one run make.
Workloads ==
    { \* one function, different positional arguments (tests.py, test_different_args)
      { Call("f", <<"a", "b">>, EmptyKw), Call("f", <<"c", "d">>, EmptyKw) },
      \* one function, an argument passed by position and by keyword
      { Call("f", <<"a", "b">>, EmptyKw), Call("f", <<"a">>, [k \in {"second"} |-> "b"]) },
      \* two function objects of one name, the same arguments
      { Call("f", <<"a", "b">>, EmptyKw), Call("f2", <<"a", "b">>, EmptyKw) },
      \* two functions of different names, the same arguments (utils.py, lines 62, 112)
      { Call("f", << >>, EmptyKw), Call("g", << >>, EmptyKw) } }

\* The `time` argument of set_expire and get_or_set.  Time is counted in
\* units of the caching time, so an entry expires one tick after it is written.
TTLs == {1}

(***************************************************************************)
(* cPickle.dumps, protocol 0, as the sequence of opcodes it writes:        *)
(* a string is S'...', a tuple is ( item ... t, a dict is ( d followed by   *)
(* key value s for every item, and the pickle ends with a full stop.       *)
(* Values are tagged with their Python type.                               *)
(***************************************************************************)
PyStr(s)   == [tag |-> "str",   val |-> s]
PyTuple(s) == [tag |-> "tuple", val |-> s]
PyDict(d)  == [tag |-> "dict",  val |-> d]

RECURSIVE save(_)
RECURSIVE save_all(_)
RECURSIVE save_items(_, _)

save_all(seq) ==
    IF seq = << >> THEN << >> ELSE save(Head(seq)) \o save_all(Tail(seq))

save_items(d, names) ==
    IF names = << >> THEN << >>
    ELSE (IF Head(names) \in DOMAIN d
            THEN save(PyStr(Head(names))) \o save(d[Head(names)]) \o <<"s">>
            ELSE << >>)
         \o save_items(d, Tail(names))

save(x) ==
    CASE x.tag = "str"   -> << "S'" \o x.val \o "'" >>
      [] x.tag = "tuple" -> <<"(">> \o save_all(x.val) \o <<"t">>
      [] x.tag = "dict"  -> <<"(", "d">> \o save_items(x.val, KwNames)

dumps(x) == save(x) \o <<".">>

\* Python's conversion of a call's values: *args is a tuple of the
\* positional values, **kwargs a dict of the keyword values.
StrTuple(seq) == PyTuple([i \in 1..Len(seq) |-> PyStr(seq[i])])
StrDict(d)    == PyDict([k \in DOMAIN d |-> PyStr(d[k])])

\* A mutation of hash_args_kwargs: the identifier leaves the arguments out.
hash_name_only(function, args, kwargs) ==
    dumps(PyTuple(<< PyStr(FuncName(function)) >>))

\* MemoryCache.hash_args_kwargs(function, *args, **kwargs):
\*     cPickle.dumps((function.__name__, args, kwargs))
\* args is a sequence of tagged values, kwargs a dict of tagged values.
hash_args_kwargs(function, args, kwargs) ==
    dumps(PyTuple(<< PyStr(FuncName(function)), PyTuple(args), PyDict(kwargs) >>))

\* A mutation of GetKey: get unpacks the arguments (*args, **kwargs) while
\* set_expire passes them as two positional values.
GetKeyUnpacked(function, args, kwargs) ==
    hash_args_kwargs(function, StrTuple(args).val, StrDict(kwargs).val)

\* get, line 84: self.hash_args_kwargs(function, args, kwargs): the tuple
\* args and the dict kwargs are passed as two positional values.
GetKey(function, args, kwargs) ==
    hash_args_kwargs(function, << StrTuple(args), StrDict(kwargs) >>, EmptyKw)

\* set_expire, line 101: the same call.
SetExpireKey(function, args, kwargs) ==
    hash_args_kwargs(function, << StrTuple(args), StrDict(kwargs) >>, EmptyKw)


(***************************************************************************)
(* State.                                                                  *)
(***************************************************************************)
VARIABLES
    cache,           \* self.cache: key -> entry (line 56)
    thread_lock,     \* self.thread_lock: Free or the thread that holds it (line 57)
    clock,           \* what datetime.now() returns
    pc,              \* where every thread is
    op,              \* the method the thread called
    function,        \* its arguments: function, time, *args, **kwargs
    time,
    args,
    kwargs,
    now,             \* locals of get, set_expire and get_or_set
    function_hash,
    in_cache_valid,
    result,
    cached,
    ret,             \* the value the call returned
    exc,             \* the exception the call raised, or NoExc
    invoked,         \* history: producer invocations made by the current call
    cleaned,         \* history: clean discarded entries and nothing was stored since
    overtaken,       \* history: clean ran while the thread was in its critical section
    stack,           \* the frames of the calls whose producer is calling the cache
    response,        \* the HTTP response to the thread's last request
    items,           \* group_by_weekday: its argument,
    todo,            \*   the dates its loop has still to visit,
    grouped,         \*   and its local `result`
    calls            \* the workload of the run

vars == << cache, thread_lock, clock, pc, op, function, time, args, kwargs, now,
           function_hash, in_cache_valid, result, cached, ret, exc, invoked,
           cleaned, overtaken, stack, response, items, todo, grouped, calls >>

\* The variables of group_by_weekday.
weekdays == << items, todo, grouped >>

frame  == << op, function, time, args, kwargs, cleaned, overtaken, stack, response,
             weekdays, calls >>

Free  == "free"
NoExc == "none"
NoOp  == "none"
NoKey == << >>

\* self.cache = {}
EmptyCache == [k \in {} |-> None]

NoResponse == [status |-> 0]

\* A cache entry: the dict literal of lines 104-107.  `by` is history: the
\* function object the entry was computed by, and its arguments.
Entry(res, expire, fn, a, kw) ==
    [result |-> res, expire_time |-> expire,
     by |-> [function |-> fn, args |-> a, kwargs |-> kw]]

InitCache ==
    /\ cache = EmptyCache
    /\ thread_lock = Free
    /\ clock = 0
    /\ pc = [t \in Threads |-> "idle"]
    /\ op = [t \in Threads |-> NoOp]
    /\ function = [t \in Threads |-> "f"]
    /\ time = [t \in Threads |-> 0]
    /\ args = [t \in Threads |-> << >>]
    /\ kwargs = [t \in Threads |-> EmptyKw]
    /\ now = [t \in Threads |-> 0]
    /\ function_hash = [t \in Threads |-> NoKey]
    /\ in_cache_valid = [t \in Threads |-> FALSE]
    /\ result = [t \in Threads |-> None]
    /\ cached = [t \in Threads |-> None]
    /\ ret = [t \in Threads |-> None]
    /\ exc = [t \in Threads |-> NoExc]
    /\ invoked = [t \in Threads |-> 0]
    /\ cleaned = FALSE
    /\ overtaken = [t \in Threads |-> FALSE]
    /\ stack = [t \in Threads |-> << >>]
    /\ response = [t \in Threads |-> NoResponse]
    /\ calls \in Workloads

\* The cache is new and group_by_weekday is not running.
Init ==
    /\ InitCache
    /\ items = << >>
    /\ todo = {}
    /\ grouped = << >>

(***************************************************************************)
(* A call of a method of the cache begins: its locals start afresh.        *)
(***************************************************************************)
Begin(t, method, c, ttl, first, n, key) ==
    /\ pc' = [pc EXCEPT ![t] = first]
    /\ op' = [op EXCEPT ![t] = method]
    /\ function' = [function EXCEPT ![t] = c.function]
    /\ args' = [args EXCEPT ![t] = c.args]
    /\ kwargs' = [kwargs EXCEPT ![t] = c.kwargs]
    /\ time' = [time EXCEPT ![t] = ttl]
    /\ now' = [now EXCEPT ![t] = n]
    /\ function_hash' = [function_hash EXCEPT ![t] = key]
    /\ in_cache_valid' = [in_cache_valid EXCEPT ![t] = FALSE]
    /\ result' = [result EXCEPT ![t] = None]
    /\ cached' = [cached EXCEPT ![t] = None]
    /\ ret' = [ret EXCEPT ![t] = None]
    /\ exc' = [exc EXCEPT ![t] = NoExc]
    /\ invoked' = [invoked EXCEPT ![t] = 0]
    /\ UNCHANGED << cleaned, overtaken, response, weekdays, calls >>

\* A thread that is in no call (it has made none yet, or its last call has
\* ended and left its outcome in ret and exc) calls a method of the cache.
Enter(t, method, c, ttl, first, n, key) ==
    /\ pc[t] \in {"idle", "done"}
    /\ stack[t] = << >>
    /\ Begin(t, method, c, ttl, first, n, key)
    /\ stack' = stack

\* The call ends: its frame is popped, so its arguments and locals are gone;
\* what is left is the outcome (ret, exc).
Leave(t) ==
    /\ pc' = [pc EXCEPT ![t] = "done"]
    /\ op' = [op EXCEPT ![t] = NoOp]
    /\ function' = [function EXCEPT ![t] = "f"]
    /\ args' = [args EXCEPT ![t] = << >>]
    /\ kwargs' = [kwargs EXCEPT ![t] = EmptyKw]
    /\ time' = [time EXCEPT ![t] = 0]
    /\ now' = [now EXCEPT ![t] = 0]
    /\ function_hash' = [function_hash EXCEPT ![t] = NoKey]
    /\ in_cache_valid' = [in_cache_valid EXCEPT ![t] = FALSE]
    /\ result' = [result EXCEPT ![t] = None]
    /\ cached' = [cached EXCEPT ![t] = None]
    /\ invoked' = [invoked EXCEPT ![t] = 0]
    /\ UNCHANGED << stack, response, weekdays, calls >>

\* The call ends by raising e.
Raise(t, e) ==
    /\ Leave(t)
    /\ exc' = [exc EXCEPT ![t] = e]
    /\ ret' = [ret EXCEPT ![t] = None]
    /\ overtaken' = [overtaken EXCEPT ![t] = @ /\ stack[t] # << >>]
    /\ cleaned' = cleaned

\* The call ends by returning v, having written nothing to the store in its
\* last step.
ReturnValue(t, v) ==
    /\ Leave(t)
    /\ ret' = [ret EXCEPT ![t] = v]
    /\ exc' = exc
    /\ overtaken' = [overtaken EXCEPT ![t] = @ /\ stack[t] # << >>]
    /\ cleaned' = cleaned

(***************************************************************************)
(* MemoryCache.get (lines 77-92).                                          *)
(***************************************************************************)
\* A mutation of NotExpired: an entry is still valid at its expire_time.
NotExpiredInclusive(entry, n) == entry.expire_time >= n

\* line 87: self.cache[function_hash].get('expire_time') > now
NotExpired(entry, n) == entry.expire_time > n

\* get is called; lines 83-84: now = datetime.now(); function_hash = ...
CallGet(t) ==
    /\ \E c \in calls :
         Enter(t, "get", c, 0, "get_in", clock, GetKey(c.function, c.args, c.kwargs))
    /\ UNCHANGED << cache, thread_lock, clock >>

\* A mutation of GetIn: get takes part in the locking (it waits until the
\* lock is free before it looks at the store).
GetInLocked(t) ==
    /\ pc[t] = "get_in"
    /\ thread_lock = Free
    /\ IF function_hash[t] \in DOMAIN cache
         THEN /\ pc' = [pc EXCEPT ![t] = "get_expire"]
              /\ UNCHANGED in_cache_valid
         ELSE /\ pc' = [pc EXCEPT ![t] = "get_if"]
              /\ in_cache_valid' = [in_cache_valid EXCEPT ![t] = FALSE]
    /\ UNCHANGED << cache, thread_lock, clock, frame, now, function_hash, result,
                    cached, ret, exc, invoked >>

\* line 86: function_hash in self.cache; when it is not, `and` yields False
GetIn(t) ==
    /\ pc[t] = "get_in"
    /\ IF function_hash[t] \in DOMAIN cache
         THEN /\ pc' = [pc EXCEPT ![t] = "get_expire"]
              /\ UNCHANGED in_cache_valid
         ELSE /\ pc' = [pc EXCEPT ![t] = "get_if"]
              /\ in_cache_valid' = [in_cache_valid EXCEPT ![t] = FALSE]
    /\ UNCHANGED << cache, thread_lock, clock, frame, now, function_hash, result,
                    cached, ret, exc, invoked >>

\* A mutation of GetExpire: an entry found expired is deleted from the store.
GetExpirePurging(t) ==
    /\ pc[t] = "get_expire"
    /\ IF function_hash[t] \in DOMAIN cache
         THEN /\ in_cache_valid' = [in_cache_valid EXCEPT
                     ![t] = NotExpired(cache[function_hash[t]], now[t])]
              /\ pc' = [pc EXCEPT ![t] = "get_if"]
              /\ cache' = IF NotExpired(cache[function_hash[t]], now[t])
                            THEN cache
                            ELSE [k \in DOMAIN cache \ {function_hash[t]} |-> cache[k]]
              /\ UNCHANGED << frame, now, function_hash, result, cached, ret, exc,
                              invoked >>
         ELSE Raise(t, "KeyError") /\ cache' = cache
    /\ UNCHANGED << thread_lock, clock >>

\* line 87: self.cache[function_hash] is looked up again (KeyError when the
\* key has gone since line 86) and its expire_time compared with now
GetExpire(t) ==
    /\ pc[t] = "get_expire"
    /\ IF function_hash[t] \in DOMAIN cache
         THEN /\ in_cache_valid' = [in_cache_valid EXCEPT
                     ![t] = NotExpired(cache[function_hash[t]], now[t])]
              /\ pc' = [pc EXCEPT ![t] = "get_if"]
              /\ UNCHANGED << frame, now, function_hash, result, cached, ret, exc,
                              invoked >>
         ELSE Raise(t, "KeyError")
    /\ UNCHANGED << cache, thread_lock, clock >>

\* The value get hands back: to its caller, or to get_or_set (line 45), where
\* it becomes `cached`.  get's own locals are gone with its frame.
GetResult(t, v) ==
    IF op[t] = "get_or_set"
      THEN /\ cached' = [cached EXCEPT ![t] = v]
           /\ pc' = [pc EXCEPT ![t] = "gos_if"]
           /\ now' = [now EXCEPT ![t] = 0]
           /\ function_hash' = [function_hash EXCEPT ![t] = NoKey]
           /\ in_cache_valid' = [in_cache_valid EXCEPT ![t] = FALSE]
           /\ UNCHANGED << frame, result, ret, exc, invoked >>
      ELSE ReturnValue(t, v)

\* lines 90-92: if in_cache_valid: return self.cache[function_hash].get('result');
\* otherwise the function ends and returns None
GetIf(t) ==
    /\ pc[t] = "get_if"
    /\ IF in_cache_valid[t]
         THEN IF function_hash[t] \in DOMAIN cache
                THEN GetResult(t, cache[function_hash[t]].result)
                ELSE Raise(t, "KeyError")
         ELSE GetResult(t, None)
    /\ UNCHANGED << cache, thread_lock, clock >>

(***************************************************************************)
(* Cache.get_or_set (lines 35-48).                                         *)
(***************************************************************************)
\* Python's `not v` for the values of the model: None, '' and {} are false.
Not(v) == v = None \/ v = "" \/ v = "{}"

\* get_or_set is called; line 45 calls get, which runs its lines 83-84
CallGetOrSet(t) ==
    /\ \E c \in calls, ttl \in TTLs :
         Enter(t, "get_or_set", c, ttl, "get_in", clock,
               GetKey(c.function, c.args, c.kwargs))
    /\ UNCHANGED << cache, thread_lock, clock >>

\* lines 46-48: if not cached: cached = self.set_expire(...) (which runs its
\* line 101); return cached
GosIf(t) ==
    /\ pc[t] = "gos_if"
    /\ IF Not(cached[t])
         THEN /\ pc' = [pc EXCEPT ![t] = "se_acquire"]
              /\ function_hash' = [function_hash EXCEPT
                     ![t] = SetExpireKey(function[t], args[t], kwargs[t])]
              /\ UNCHANGED << frame, now, in_cache_valid, result, cached, ret, exc,
                              invoked >>
         ELSE ReturnValue(t, cached[t])
    /\ UNCHANGED << cache, thread_lock, clock >>

(***************************************************************************)
(* MemoryCache.set_expire (lines 94-108).                                  *)
(***************************************************************************)
\* set_expire is called; line 101
CallSetExpire(t) ==
    /\ \E c \in calls, ttl \in TTLs :
         Enter(t, "set_expire", c, ttl, "se_acquire", 0,
               SetExpireKey(c.function, c.args, c.kwargs))
    /\ UNCHANGED << cache, thread_lock, clock >>

\* A mutation of SeAcquire: the with statement is missing.
SeAcquireNoLock(t) ==
    /\ pc[t] = "se_acquire"
    /\ thread_lock' = t
    /\ invoked' = [invoked EXCEPT ![t] = @ + 1]
    /\ pc' = [pc EXCEPT ![t] = "se_producer"]
    /\ UNCHANGED << cache, clock, frame, now, function_hash, in_cache_valid, result,
                    cached, ret, exc >>

\* line 102: with self.thread_lock: waits until the lock is free and takes it;
\* line 103: function(*args, **kwargs) is entered
SeAcquire(t) ==
    /\ pc[t] = "se_acquire"
    /\ thread_lock = Free
    /\ thread_lock' = t
    /\ invoked' = [invoked EXCEPT ![t] = @ + 1]
    /\ pc' = [pc EXCEPT ![t] = "se_producer"]
    /\ UNCHANGED << cache, clock, frame, now, function_hash, in_cache_valid, result,
                    cached, ret, exc >>

\* The values that the function can return.
ProducerResults(fn) ==
    IF FuncName(fn) = "get_presence_data" THEN PresenceData ELSE Results

\* line 103: the producer returns a value
SeProducerReturn(t) ==
    /\ pc[t] = "se_producer"
    /\ \E v \in ProducerResults(function[t]) : result' = [result EXCEPT ![t] = v]
    /\ pc' = [pc EXCEPT ![t] = "se_store"]
    /\ UNCHANGED << cache, thread_lock, clock, frame, now, function_hash,
                    in_cache_valid, cached, ret, exc, invoked >>

\* A mutation of SeProducerRaise: the entry is written before the producer is
\* called, so a producer that raises leaves an entry without a result.
SeProducerRaiseStoring(t) ==
    /\ pc[t] = "se_producer"
    /\ thread_lock' = Free
    /\ Raise(t, "ProducerError")
    /\ cache' = (function_hash[t] :>
                    Entry(None, clock + time[t], function[t], args[t], kwargs[t]))
                 @@ cache
    /\ UNCHANGED clock

\* A mutation of SeProducerRaise: the lock is taken by acquire() and released
\* by release() after the write, without with or try/finally.
SeProducerRaiseKeepsLock(t) ==
    /\ pc[t] = "se_producer"
    /\ thread_lock' = thread_lock
    /\ Raise(t, "ProducerError")
    /\ UNCHANGED << cache, clock >>

\* line 103: the producer raises; the with statement releases the lock and
\* the exception leaves set_expire (and get_or_set)
SeProducerRaise(t) ==
    /\ pc[t] = "se_producer"
    /\ thread_lock' = Free
    /\ Raise(t, "ProducerError")
    /\ UNCHANGED << cache, clock >>

\* A mutation of ExpireTime: the time argument is left out.
ExpireTimeNow(n, seconds) == n

\* line 106: datetime.now() + timedelta(seconds=time)
ExpireTime(n, seconds) == n + seconds

\* A mutation of Store: the store holds one entry; a write evicts the others.
StoreEvicting(c, key, entry) == (key :> entry)

\* A mutation of Store: an entry that is there already is kept (setdefault).
StoreIfAbsent(c, key, entry) ==
    IF key \in DOMAIN c THEN c ELSE (key :> entry) @@ c

\* line 104: self.cache[function_hash] = {...}
Store(c, key, entry) == (key :> entry) @@ c

\* lines 104-107: the entry is written; the with block ends and releases the
\* lock; line 108: return result (and line 48 of get_or_set: return cached)
SeStore(t) ==
    /\ pc[t] = "se_store"
    /\ cache' = Store(cache, function_hash[t],
                      Entry(result[t], ExpireTime(clock, time[t]),
                            function[t], args[t], kwargs[t]))
    /\ thread_lock' = Free
    /\ Leave(t)
    /\ ret' = [ret EXCEPT ![t] = result[t]]
    /\ overtaken' = [overtaken EXCEPT ![t] = FALSE]
    /\ cleaned' = FALSE
    /\ UNCHANGED << clock, exc >>

(***************************************************************************)
(* MemoryCache.clean (lines 71-75).                                        *)
(***************************************************************************)
\* A mutation of Clean: only the entries that have expired are discarded.
CleanExpired(t) ==
    /\ pc[t] \in {"idle", "done"}
    /\ stack[t] = << >>
    /\ cache' = [k \in {j \in DOMAIN cache : cache[j].expire_time > clock}
                    |-> cache[k]]
    /\ Leave(t)
    /\ ret' = [ret EXCEPT ![t] = None]
    /\ overtaken' = [u \in Threads |-> thread_lock = u]
    /\ cleaned' = (cleaned \/ cache # EmptyCache)
    /\ UNCHANGED << thread_lock, clock, exc >>

\* line 75: self.cache = {}; no lock is taken.  The populations in flight (the
\* thread between lines 103 and 107, which holds the lock) are overtaken by it.
Clean(t) ==
    /\ pc[t] \in {"idle", "done"}
    /\ stack[t] = << >>
    /\ cache' = EmptyCache
    /\ Leave(t)
    /\ ret' = [ret EXCEPT ![t] = None]
    /\ overtaken' = [u \in Threads |-> thread_lock = u]
    /\ cleaned' = (cleaned \/ cache # EmptyCache)
    /\ UNCHANGED << thread_lock, clock, exc >>

(***************************************************************************)
(* The base class Cache (lines 10-48), called on an object of its own: it  *)
(* has no store and no lock.                                               *)
(***************************************************************************)
\* Cache.get(function, *args, **kwargs) is called
CallBaseGet(t) ==
    /\ \E c \in calls : Enter(t, "Cache.get", c, 0, "base_get", 0, NoKey)
    /\ UNCHANGED << cache, thread_lock, clock >>

\* Cache.set_expire(function, time, *args, **kwargs) is called
CallBaseSetExpire(t) ==
    /\ \E c \in calls, ttl \in TTLs :
         Enter(t, "Cache.set_expire", c, ttl, "base_set_expire", 0, NoKey)
    /\ UNCHANGED << cache, thread_lock, clock >>

\* Cache.get_or_set is called on the base class; its line 45 calls self.get
CallBaseGetOrSet(t) ==
    /\ \E c \in calls, ttl \in TTLs :
         Enter(t, "Cache.get_or_set", c, ttl, "base_get", 0, NoKey)
    /\ UNCHANGED << cache, thread_lock, clock >>

\* A mutation of BaseGet: the base class reports that nothing is cached.
BaseGetAbsent(t) ==
    /\ pc[t] = "base_get"
    /\ ReturnValue(t, None)
    /\ UNCHANGED << cache, thread_lock, clock >>

\* line 22: raise NotImplementedError (through get_or_set when it made the call)
BaseGet(t) ==
    /\ pc[t] = "base_get"
    /\ Raise(t, "NotImplementedError")
    /\ UNCHANGED << cache, thread_lock, clock >>

\* line 33: raise NotImplementedError
BaseSetExpire(t) ==
    /\ pc[t] = "base_set_expire"
    /\ Raise(t, "NotImplementedError")
    /\ UNCHANGED << cache, thread_lock, clock >>

\* Time passes.
Tick ==
    /\ clock < MaxTime
    /\ clock' = clock + 1
    /\ UNCHANGED << cache, thread_lock, pc, frame, now, function_hash, in_cache_valid,
                    result, cached, ret, exc, invoked >>

Next ==
    \/ Tick
    \/ \E t \in Threads :
         \/ CallGet(t)
         \/ GetIn(t)
         \/ GetExpire(t)
         \/ GetIf(t)
         \/ CallGetOrSet(t)
         \/ GosIf(t)
         \/ CallSetExpire(t)
         \/ SeAcquire(t)
         \/ SeProducerReturn(t)
         \/ SeProducerRaise(t)
         \/ SeStore(t)
         \/ Clean(t)

Spec == Init /\ [][Next]_vars

\* The threads call the methods of an object of the base class.
NextBase ==
    \E t \in Threads :
        \/ CallBaseGet(t)
        \/ CallBaseSetExpire(t)
        \/ CallBaseGetOrSet(t)
        \/ BaseGet(t)
        \/ BaseSetExpire(t)

SpecBase == Init /\ [][NextBase]_vars

(***************************************************************************)
(* Producers that use the cache themselves: a function cached by the       *)
(* decorator of utils.py (lines 24-40) that calls another cached function, *)
(* so that set_expire, inside its with block, calls get_or_set or          *)
(* set_expire of the same MemoryCache on the same thread.                  *)
(***************************************************************************)
\* The frame of a call that waits for its producer.
Frame(t) ==
    [op |-> op[t], function |-> function[t], time |-> time[t], args |-> args[t],
     kwargs |-> kwargs[t], function_hash |-> function_hash[t],
     cached |-> cached[t], invoked |-> invoked[t]]

\* line 103: the producer, running under the lock, calls get_or_set (through
\* the wrapper, utils.py line 38) or set_expire
SeProducerCalls(t) ==
    /\ pc[t] = "se_producer"
    /\ stack' = [stack EXCEPT ![t] = << Frame(t) >> \o @]
    /\ \E c \in calls, ttl \in TTLs :
          \/ Begin(t, "get_or_set", c, ttl, "get_in", clock,
                   GetKey(c.function, c.args, c.kwargs))
          \/ Begin(t, "set_expire", c, ttl, "se_acquire", 0,
                   SetExpireKey(c.function, c.args, c.kwargs))
    /\ UNCHANGED << cache, thread_lock, clock >>

\* The call made by the producer has ended.  When it returned a value, the
\* producer returns it to the set_expire that waits (line 103); when it
\* raised, the exception leaves the producer and the with block, which
\* releases the lock, and set_expire (and get_or_set).
NestedReturn(t) ==
    /\ pc[t] = "done"
    /\ stack[t] # << >>
    /\ stack' = [stack EXCEPT ![t] = Tail(@)]
    /\ IF exc[t] = NoExc
         THEN /\ pc' = [pc EXCEPT ![t] = "se_store"]
              /\ op' = [op EXCEPT ![t] = Head(stack[t]).op]
              /\ function' = [function EXCEPT ![t] = Head(stack[t]).function]
              /\ time' = [time EXCEPT ![t] = Head(stack[t]).time]
              /\ args' = [args EXCEPT ![t] = Head(stack[t]).args]
              /\ kwargs' = [kwargs EXCEPT ![t] = Head(stack[t]).kwargs]
              /\ function_hash' = [function_hash EXCEPT
                     ![t] = Head(stack[t]).function_hash]
              /\ cached' = [cached EXCEPT ![t] = Head(stack[t]).cached]
              /\ invoked' = [invoked EXCEPT ![t] = Head(stack[t]).invoked]
              /\ result' = [result EXCEPT ![t] = ret[t]]
              /\ ret' = [ret EXCEPT ![t] = None]
              /\ UNCHANGED << thread_lock, overtaken >>
         ELSE /\ thread_lock' = Free
              /\ overtaken' = [overtaken EXCEPT ![t] = FALSE]
              /\ UNCHANGED << pc, op, function, time, args, kwargs, function_hash,
                              cached, invoked, result, ret >>
    /\ UNCHANGED << cache, clock, now, in_cache_valid, exc, cleaned, response,
                    weekdays, calls >>

\* The run of utils.py: the cached functions of lines 62 and 112.
InitNested == Init /\ calls = { Call("f", << >>, EmptyKw), Call("g", << >>, EmptyKw) }

NextNested ==
    \/ Next
    \/ \E t \in Threads :
         \/ SeProducerCalls(t)
         \/ NestedReturn(t)

\* A step of thread t.
ThreadStep(t) ==
    \/ GetIn(t) \/ GetExpire(t) \/ GetIf(t) \/ GosIf(t)
    \/ SeAcquire(t) \/ SeProducerReturn(t) \/ SeProducerRaise(t) \/ SeStore(t)
    \/ NestedReturn(t)

\* Every thread that can take a step of its call is scheduled eventually, and
\* a producer that has been entered ends.
SpecNested ==
    /\ InitNested
    /\ [][NextNested]_vars
    /\ \A t \in Threads : WF_vars(ThreadStep(t))

(***************************************************************************)
(* The API: a view of blueprints/api_v1/views.py serves a request for a    *)
(* user by calling get_user_presence_data (utils.py, lines 156-167), which *)
(* calls the cached get_presence_data (lines 112-113): the decorator's     *)
(* wrapper calls cache_backend.get_or_set(get_presence_data, 60).          *)
(***************************************************************************)
\* The user ids of the requests: 10 is in the data when there is any, 0 never
\* (tests.py, lines 94-99, 280-294).
UserIds == {0, 10}

PresenceCall == Call("g", << >>, EmptyKw)

\* The user id of the request that thread t serves.
RequestUser(t) == Head(stack[t]).user_id

\* A request arrives; the view calls get_user_presence_data(user_id), whose
\* line 163 calls get_presence_data(), i.e. get_or_set (utils.py, line 38)
CallGetUserPresenceData(t) ==
    /\ pc[t] \in {"idle", "done"}
    /\ stack[t] = << >>
    /\ \E u \in UserIds :
          stack' = [stack EXCEPT ![t] = << [op |-> "api_view", user_id |-> u] >>]
    /\ \E ttl \in TTLs :
          Begin(t, "get_or_set", PresenceCall, ttl, "get_in", clock,
                GetKey(PresenceCall.function, PresenceCall.args, PresenceCall.kwargs))
    /\ UNCHANGED << cache, thread_lock, clock >>

\* A mutation of UserLookup: a user that is not in the data has no days
\* (data.get(user_id, {})).
UserLookupDefault(t) ==
    /\ pc[t] = "done"
    /\ stack[t] # << >>
    /\ IF exc[t] # NoExc
         THEN /\ stack' = [stack EXCEPT ![t] = Tail(@)]
              /\ UNCHANGED << pc, ret, exc >>
         ELSE /\ pc' = [pc EXCEPT ![t] = "api_view"]
              /\ ret' = [ret EXCEPT ![t] =
                            IF RequestUser(t) \in DOMAIN DictOf(ret[t])
                              THEN DictOf(ret[t])[RequestUser(t)] ELSE "{}"]
              /\ UNCHANGED << stack, exc >>
    /\ UNCHANGED << cache, thread_lock, clock, op, function, time, args, kwargs,
                    now, function_hash, in_cache_valid, result, cached, invoked,
                    cleaned, overtaken, response, weekdays, calls >>

\* utils.py, lines 163-167: get_presence_data() has ended.  An exception of it
\* leaves get_user_presence_data and the view.  Otherwise: if user_id not in
\* data: raise UserNotFoundError('User not found'); return data[user_id]
UserLookup(t) ==
    /\ pc[t] = "done"
    /\ stack[t] # << >>
    /\ IF exc[t] # NoExc
         THEN /\ stack' = [stack EXCEPT ![t] = Tail(@)]
              /\ UNCHANGED << pc, ret, exc >>
         ELSE /\ pc' = [pc EXCEPT ![t] = "api_view"]
              /\ IF RequestUser(t) \in DOMAIN DictOf(ret[t])
                   THEN /\ ret' = [ret EXCEPT ![t] = DictOf(ret[t])[RequestUser(t)]]
                        /\ exc' = exc
                   ELSE /\ ret' = [ret EXCEPT ![t] = None]
                        /\ exc' = [exc EXCEPT ![t] = "UserNotFoundError"]
              /\ stack' = stack
    /\ UNCHANGED << cache, thread_lock, clock, op, function, time, args, kwargs,
                    now, function_hash, in_cache_valid, result, cached, invoked,
                    cleaned, overtaken, response, weekdays, calls >>

\* The request ends with the response r.
Respond(t, r) ==
    /\ response' = [response EXCEPT ![t] = r]
    /\ stack' = [stack EXCEPT ![t] = Tail(@)]
    /\ pc' = [pc EXCEPT ![t] = "done"]
    /\ UNCHANGED << cache, thread_lock, clock, op, function, time, args, kwargs,
                    now, function_hash, in_cache_valid, result, cached, ret, exc,
                    invoked, cleaned, overtaken, weekdays, calls >>

\* views.py, lines 23-28: the handler of UserNotFoundError:
\*     return jsonify_func(dict(success=False, message=error.message)), 404
user_not_found(t) ==
    /\ pc[t] = "api_view"
    /\ exc[t] = "UserNotFoundError"
    /\ Respond(t, [status |-> 404, success |-> FALSE, message |-> "User not found"])

\* The view returns what it computed from the user's days; the jsonify
\* decorator (utils.py, lines 43-58) wraps it in a Response (status 200).
ApiViewReturn(t) ==
    /\ pc[t] = "api_view"
    /\ exc[t] = NoExc
    /\ Respond(t, [status |-> 200, days |-> ret[t]])

InitApi == Init /\ PresenceCall \in calls

NextApi ==
    \/ Tick
    \/ \E t \in Threads :
         \/ CallGetUserPresenceData(t)
         \/ GetIn(t)
         \/ GetExpire(t)
         \/ GetIf(t)
         \/ GosIf(t)
         \/ SeAcquire(t)
         \/ SeProducerReturn(t)
         \/ SeProducerRaise(t)
         \/ SeStore(t)
         \/ UserLookup(t)
         \/ user_not_found(t)
         \/ ApiViewReturn(t)
         \/ Clean(t)

SpecApi == InitApi /\ [][NextApi]_vars

(***************************************************************************)
(* group_by_weekday (utils.py, lines 170-183) and the functions it calls.  *)
(* A date is its proleptic Gregorian ordinal (date.toordinal()), a time a  *)
(* record of hour, minute and second.                                      *)
(***************************************************************************)
\* datetime.date(2016, 7, 18).toordinal(), the first date of tests.py
FirstDay == 736163

Days == FirstDay .. (FirstDay + NumDays - 1)

Time(h, m, sec) == [hour |-> h, minute |-> m, second |-> sec]

Times == { Time(0, 0, 0), Time(0, 0, 1), Time(9, 30, 0) }

\* The arguments: dicts from at most MaxItems dates to a start and an end.
ItemDicts ==
    UNION { [D -> [start : Times, end : Times]] :
              D \in { E \in SUBSET Days : Cardinality(E) <= MaxItems } }

\* date.weekday(): Monday is 0; day 1 of the ordinals is a Monday
weekday(date) == (date + 6) % 7

\* utils.py, line 231
seconds_since_midnight(t) == t.hour * 3600 + t.minute * 60 + t.second

\* A mutation of interval: the operands are exchanged.
interval_reversed(start, end) ==
    seconds_since_midnight(start) - seconds_since_midnight(end)

\* utils.py, line 241
interval(start, end) ==
    seconds_since_midnight(end) - seconds_since_midnight(start)

\* group_by_weekday is called: line 178
InitWeekday ==
    /\ InitCache
    /\ PresenceCall \in calls
    /\ items \in ItemDicts
    /\ todo = DOMAIN items
    /\ grouped = << << >>, << >>, << >>, << >>, << >>, << >>, << >> >>

\* lines 179-182: one turn of the loop, for a date that the iteration of the
\* dict yields next (any of those not yet visited); the lists are indexed
\* from 0 in Python and from 1 here
group_by_weekday ==
    /\ \E date \in todo :
          /\ grouped' = [grouped EXCEPT ![weekday(date) + 1] =
                            Append(@, interval(items[date].start, items[date].end))]
          /\ todo' = todo \ {date}
    /\ UNCHANGED << cache, thread_lock, clock, pc, op, function, time, args, kwargs,
                    now, function_hash, in_cache_valid, result, cached, ret, exc,
                    invoked, cleaned, overtaken, stack, response, items, calls >>

NextWeekday == group_by_weekday

SpecWeekday == InitWeekday /\ [][NextWeekday]_vars

(***************************************************************************)
(* Properties.                                                             *)
(***************************************************************************)
ThisCall(t) == Call(function[t], args[t], kwargs[t])

GetPCs == {"get_in", "get_expire", "get_if"}

CriticalPCs == {"se_producer", "se_store"}

\* Thread t takes a step of its call.
Moves(t) == pc'[t] # pc[t]

\* The value that get hands back in this step.
Handed(t) == IF op[t] = "get_or_set" THEN cached'[t] ELSE ret'[t]

\* C1: get_or_set invokes the producer only when get found no unexpired entry
\* for the key: a second get_or_set on an unexpired key does not invoke the
\* producer again, whatever value was cached.  (get hands back None exactly
\* when it found no unexpired entry: no producer of the model returns None.)
C1_HitNeverInvokes ==
    \A t \in Threads :
        (op[t] = "get_or_set" /\ invoked[t] > 0) => cached[t] = None

\* C2: get decides that an entry is valid exactly when the key is in the store
\* and now < expire_time, hands back the stored result exactly then, and hands
\* back None otherwise, the entry staying in the store.
C2_ValidIffUnexpired ==
    [][\A t \in Threads :
          /\ (pc[t] = "get_in" /\ pc'[t] = "get_if") =>
                 (function_hash[t] \notin DOMAIN cache /\ ~in_cache_valid'[t])
          /\ (pc[t] = "get_expire" /\ pc'[t] = "get_if") =>
                 /\ function_hash[t] \in DOMAIN cache
                 /\ in_cache_valid'[t] <=> (now[t] < cache[function_hash[t]].expire_time)
          /\ (pc[t] = "get_if" /\ Moves(t) /\ exc'[t] = NoExc) =>
                 /\ Handed(t) = IF in_cache_valid[t]
                                  THEN cache[function_hash[t]].result ELSE None
                 /\ cache' = cache
      ]_vars

\* C2 witness: a get has found its key in the store with expire_time = now and
\* decided that the entry is not valid; the entry is still in the store.
C2_Witness ==
    \E t \in Threads :
        /\ op[t] = "get" /\ pc[t] = "get_if" /\ ~in_cache_valid[t]
        /\ function_hash[t] \in DOMAIN cache
        /\ cache[function_hash[t]].expire_time = now[t]

\* C3: get_or_set calls set_expire only when get reported absent (None);
\* otherwise it returns the hit without calling set_expire.
C3_SetExpireOnlyIfAbsent ==
    \A t \in Threads :
        (op[t] = "get_or_set" /\ pc[t] = "se_acquire") => cached[t] = None

\* C4: set_expire enters the producer on every call, whatever the store
\* holds, once; it then writes the entry of its key with the producer's result
\* and expire_time = the clock at the write + time, and returns that result.
C4_SetExpirePopulates ==
    [][\A t \in Threads :
          /\ (pc[t] = "se_acquire" /\ Moves(t)) =>
                 (pc'[t] = "se_producer" /\ invoked'[t] = invoked[t] + 1)
          /\ pc[t] \in CriticalPCs => invoked[t] = 1
          /\ (pc[t] = "se_store" /\ Moves(t)) =>
                 /\ function_hash[t] = SetExpireKey(function[t], args[t], kwargs[t])
                 /\ function_hash[t] \in DOMAIN cache'
                 /\ cache'[function_hash[t]].result = result[t]
                 /\ cache'[function_hash[t]].expire_time = clock + time[t]
                 /\ ret'[t] = result[t]
                 /\ exc'[t] = NoExc
      ]_vars

\* C4 witness: set_expire has called the producer again and holds its result
\* while an unexpired entry for the key is in the store.
C4_Witness ==
    \E t \in Threads :
        /\ op[t] = "set_expire" /\ pc[t] = "se_store" /\ invoked[t] = 1
        /\ function_hash[t] \in DOMAIN cache
        /\ cache[function_hash[t]].expire_time > clock

C6_ArgumentSensitivity ==
    \A t \in Threads :
        (pc[t] \in GetPCs /\ function_hash[t] \in DOMAIN cache) =>
            /\ cache[function_hash[t]].by.args = args[t]
            /\ cache[function_hash[t]].by.kwargs = kwargs[t]

\* C6 witness: a get has found nothing under its key while the store holds an
\* unexpired entry of the same function for other arguments.
C6_Witness ==
    \E t \in Threads :
        /\ op[t] = "get" /\ pc[t] = "get_if" /\ ~in_cache_valid[t]
        /\ function_hash[t] \notin DOMAIN cache
        /\ \E k \in DOMAIN cache :
              /\ cache[k].by.function = function[t]
              /\ cache[k].by.args # args[t]
              /\ cache[k].expire_time > now[t]

\* C7: the entry that get finds under the key it derives was computed by the
\* same function object.
C7_ProducerSensitivity ==
    \A t \in Threads :
        (pc[t] \in GetPCs /\ function_hash[t] \in DOMAIN cache) =>
            cache[function_hash[t]].by.function = function[t]

\* C8: at most one thread is between acquiring and releasing thread_lock, and
\* the lock is held by that thread.
C8_MutualExclusion ==
    /\ \A t, u \in Threads :
          (pc[t] \in CriticalPCs /\ pc[u] \in CriticalPCs) => t = u
    /\ \A t \in Threads : pc[t] \in CriticalPCs => thread_lock = t

\* C8 witness: one thread is in the producer while another waits for the lock
\* to populate a different key.
C8_Witness ==
    \E t, u \in Threads :
        /\ pc[t] = "se_producer" /\ pc[u] = "se_acquire"
        /\ function_hash[t] # function_hash[u]

\* C9: a get_or_set that got a miss writes its producer's result over whatever
\* the store holds for the key, so the entry left is that of the last writer.
C9_LastWriterWins ==
    [][\A t \in Threads :
          (op[t] = "get_or_set" /\ pc[t] = "se_store" /\ Moves(t)) =>
              /\ function_hash[t] \in DOMAIN cache'
              /\ cache'[function_hash[t]].by = ThisCall(t)
              /\ cache'[function_hash[t]].result = result[t]
      ]_vars

\* C9 witness: two threads in get_or_set for the same key have both got a miss;
\* one has invoked the producer and is about to write, the other waits for the
\* lock to invoke it too.
C9_Witness ==
    \E t, u \in Threads :
        /\ t # u
        /\ op[t] = "get_or_set" /\ op[u] = "get_or_set"
        /\ function_hash[t] = function_hash[u]
        /\ cached[t] = None /\ cached[u] = None
        /\ pc[t] = "se_store" /\ invoked[t] = 1
        /\ pc[u] = "se_acquire"

\* C10: no step of get changes the store, and an entry leaves the store or
\* changes only by a clean or by a set_expire that writes its key.
C10_GetLeavesStore ==
    [][/\ \A t \in Threads :
             (Moves(t) /\ (pc[t] \in GetPCs \/ pc'[t] = "get_in")) => cache' = cache
       /\ \A k \in DOMAIN cache :
             (k \notin DOMAIN cache' \/ cache'[k] # cache[k]) =>
                 \/ cache' = EmptyCache
                 \/ \E t \in Threads :
                       pc[t] = "se_store" /\ Moves(t) /\ function_hash[t] = k
      ]_vars

\* C10 witness: the get of a get_or_set has looked at an expired entry and
\* decided on a miss; the entry is still in the store.
C10_Witness ==
    \E t \in Threads :
        /\ op[t] = "get_or_set" /\ pc[t] = "get_if" /\ ~in_cache_valid[t]
        /\ function_hash[t] \in DOMAIN cache
        /\ cache[function_hash[t]].expire_time <= now[t]

\* An entry of the store is whole: it has the result of a producer and an
\* expire_time.
WholeEntry(e) == e.result \in Results \cup PresenceData /\ e.expire_time \in Nat

\* A step of get that thread t can take.
GetStep(t) == GetIn(t) \/ GetExpire(t) \/ GetIf(t)

\* C11: when the producer raises in set_expire (called directly or by
\* get_or_set), the call ends with the producer's exception and no value, and
\* no step of the call from its start to the raise changes the store; every
\* entry of the store is whole.
C11_FailureStoresNothing ==
    [][\A t \in Threads :
          /\ (pc[t] = "se_producer" /\ Moves(t) /\ pc'[t] # "se_store") =>
                 /\ pc'[t] = "done"
                 /\ exc'[t] = "ProducerError"
                 /\ ret'[t] = None
          /\ (Moves(t) /\ pc[t] \in {"gos_if", "se_acquire", "se_producer"}) =>
                 cache' = cache
          /\ \A k \in DOMAIN cache' : WholeEntry(cache'[k])
      ]_vars

\* C11 witness: a call has ended with the producer's exception while the store
\* holds an entry written before.
C11_Witness ==
    \E t \in Threads :
        /\ pc[t] = "done" /\ exc[t] = "ProducerError"
        /\ cache # EmptyCache

\* C14: get never raises: no call ends with a KeyError (only the steps of get
\* at lines 87 and 91 raise it).
C14_GetNeverRaises ==
    \A t \in Threads : exc[t] # "KeyError"

C20_LockReleased ==
    (\A t \in Threads : pc[t] \notin CriticalPCs) =>
        /\ thread_lock = Free
        /\ \A t \in Threads : pc[t] = "se_acquire" => ENABLED SeAcquire(t)

\* C20 witness: a call has ended with the producer's exception and another
\* thread holds the lock, which it took after that failure.
C20_Witness ==
    \E t, u \in Threads :
        /\ pc[t] = "done" /\ exc[t] = "ProducerError"
        /\ pc[u] \in CriticalPCs /\ thread_lock = u

BasePCs == {"base_get", "base_set_expire"}

\* C13: every call of get, set_expire and get_or_set on the base class Cache
\* ends by raising NotImplementedError, whatever the function and the
\* arguments, without having invoked the function and without touching a store.
C13_BaseNotImplemented ==
    [][\A t \in Threads :
          /\ (Moves(t) /\ pc'[t] \in BasePCs) =>
                 /\ op'[t] \in {"Cache.get", "Cache.set_expire", "Cache.get_or_set"}
                 /\ invoked'[t] = 0
          /\ (op[t] \in {"Cache.get", "Cache.set_expire", "Cache.get_or_set"}
                /\ Moves(t)) =>
                 /\ pc[t] \in BasePCs
                 /\ pc'[t] = "done"
                 /\ exc'[t] = "NotImplementedError"
                 /\ ret'[t] = None
                 /\ invoked[t] = 0
                 /\ cache' = cache
      ]_vars

\* C13 witness: one call on the base class has ended with NotImplementedError
\* and a get_or_set on the base class is in its call of get.
C13_Witness ==
    \E t, u \in Threads :
        /\ pc[t] = "done" /\ exc[t] = "NotImplementedError"
        /\ op[u] = "Cache.get_or_set" /\ pc[u] = "base_get"

\* C12: once clean has discarded the entries of the store, and as long as
\* nothing is stored afterwards, the store is empty: a get that looks for its
\* key then does not find it, whatever expire_time the entry had, and a get
\* that has not found its key hands back None.
C12_CleanResets ==
    /\ [](cleaned => cache = EmptyCache)
    /\ [][\A t \in Threads :
             /\ (cleaned /\ pc[t] = "get_in" /\ Moves(t)) =>
                    (pc'[t] = "get_if" /\ ~in_cache_valid'[t])
             /\ (pc[t] = "get_if" /\ ~in_cache_valid[t] /\ Moves(t)) =>
                    (Handed(t) = None /\ exc'[t] = NoExc)
         ]_vars

\* C12 witness: clean has discarded entries, nothing has been stored since, and
\* a get has not found its key.
C12_Witness ==
    \E t \in Threads :
        /\ cleaned
        /\ op[t] = "get" /\ pc[t] = "get_if" /\ ~in_cache_valid[t]

\* C18: no entry whose computation began before a clean that has returned
\* since comes into the store: a set_expire that was between invoking the
\* producer and writing when clean ran does not leave its entry in the store.
C18_CleanAtomic ==
    [][\A t \in Threads :
          (pc[t] = "se_store" /\ Moves(t) /\ overtaken[t]) =>
              function_hash[t] \notin DOMAIN cache'
      ]_vars

\* C19: no call can be left waiting for ever: a thread that waits for
\* thread_lock at line 102 does not hold the lock itself (only its holder
\* releases it), so the wait ends when the holder's producer has ended.
C19_NoSelfDeadlock ==
    \A t \in Threads : pc[t] = "se_acquire" => thread_lock # t

\* Thread t serves a request.
InRequest(t) == stack[t] # << >> /\ Head(stack[t]).op = "api_view"

\* The user ids that some presence data holds.
KnownUsers == UNION { DOMAIN DictOf(d) : d \in PresenceData }

PresenceSeconds(d) ==
    (items[d].end.hour * 3600 + items[d].end.minute * 60 + items[d].end.second)
    - (items[d].start.hour * 3600 + items[d].start.minute * 60
       + items[d].start.second)

\* The day of the week of date d, counted in days from a Monday (18 July 2016).
DaysFromMonday(d) == (d - FirstDay) % 7

\* C17: group_by_weekday builds 7 lists, Monday's first; the list of a weekday
\* holds, for every date of that weekday that the loop has visited, one
\* element end - start in seconds, and nothing else, so the lengths of the
\* lists sum to the number of dates visited: all dates when the loop has ended.
C17_GroupByWeekday ==
    LET visited == DOMAIN items \ todo IN
    /\ Len(grouped) = 7
    /\ \A w \in 0..6 :
          \A v \in { PresenceSeconds(d) : d \in DOMAIN items }
                   \cup { grouped[w + 1][i] : i \in 1..Len(grouped[w + 1]) } :
             Cardinality({ i \in 1..Len(grouped[w + 1]) : grouped[w + 1][i] = v })
               = Cardinality({ d \in visited :
                                 DaysFromMonday(d) = w /\ PresenceSeconds(d) = v })
    /\ Len(grouped[1]) + Len(grouped[2]) + Len(grouped[3]) + Len(grouped[4])
         + Len(grouped[5]) + Len(grouped[6]) + Len(grouped[7])
       = Cardinality(visited)

\* C17 witness: the loop has ended for two dates of one weekday with different,
\* one of them negative, intervals; the other six lists are empty.
C17_Witness ==
    /\ todo = {}
    /\ \E w \in 1..7 :
          /\ Len(grouped[w]) = 2
          /\ grouped[w][1] < 0 /\ grouped[w][2] > 0
          /\ \A x \in (1..7) \ {w} : grouped[x] = << >>

\* C21: the store is empty after construction; the write of set_expire adds or
\* replaces the entry of its own key and leaves every other entry as it is;
\* and a key leaves the store only by a clean, which empties it: between two
\* cleans the set of keys does not shrink.
C21_NoEviction ==
    /\ cache = EmptyCache
    /\ [][/\ \A t \in Threads :
               (pc[t] = "se_store" /\ Moves(t)) =>
                   /\ DOMAIN cache' = DOMAIN cache \cup {function_hash[t]}
                   /\ \A k \in DOMAIN cache \ {function_hash[t]} :
                         cache'[k] = cache[k]
          /\ (DOMAIN cache \ DOMAIN cache' # {}) =>
                 /\ cache' = EmptyCache
                 /\ cleaned'
                 /\ \E t \in Threads :
                       pc[t] \in {"idle", "done"} /\ pc'[t] = "done"
                         /\ ret'[t] = None
          /\ \A t \in Threads :
               (Moves(t) /\ pc[t] # "se_store") =>
                   \A k \in DOMAIN cache \cap DOMAIN cache' : cache'[k] = cache[k]
      ]_vars

\* C21 witness: set_expire has written a second key next to an entry that has
\* expired since and is still in the store.
C21_Witness ==
    /\ Cardinality(DOMAIN cache) = 2
    /\ \E k \in DOMAIN cache : cache[k].expire_time <= clock
    /\ \E k \in DOMAIN cache : cache[k].expire_time > clock

=============================================================================
